---- MODULE Spec2Model ----
(***************************************************************************)
(* Model of app.py, the Streamlit script of the cover letter generator.    *)
(*                                                                         *)
(* One execution of main() is one script run.  A user action (a click on   *)
(* a button, a changed widget) triggers one script run; a successful       *)
(* Generate ends in st.rerun(), which runs the script once more with the   *)
(* same widget values, and that second run is part of the same action.     *)
(*                                                                         *)
(* Strings are sequences of tokens (<<>> is the empty string), so that     *)
(* concatenation, emptiness and the regular expressions of the URL         *)
(* validator are computed, not assumed.                                    *)
(***************************************************************************)
EXTENDS Integers, Sequences, FiniteSets, TLC

VARIABLES
    secrets,        \* st.secrets: LINKEDIN_EMAIL / LINKEDIN_PASSWORD
    env,            \* os.environ: LINKEDIN_EMAIL / LINKEDIN_PASSWORD
    cover_letter,   \* st.session_state.cover_letter
    editor_active,  \* st.session_state.editor_active
    history,        \* RevisionState.history of the revision session
    lastRun,        \* what the last user action did (observation only)
    lastEdit,       \* the last apply_edit of the last user action (observation only)
    url_in,         \* argument of a direct call of validate_linkedin_url
    url_type,       \* its type argument
    url_result      \* its result

vars == <<secrets, env, cover_letter, editor_active, history, lastRun, lastEdit,
          url_in, url_type, url_result>>

----------------------------------------------------------------------------
(* Bounds *)

\* longest revision history the model follows
MaxHistory == 2
\* most experience entries of a scraped profile
MaxExperience == 1
\* longest posting-identifier segment of a candidate URL
MaxIdLen == 2

----------------------------------------------------------------------------
(* Strings *)

\* Python None / a key that is absent
Missing == "<None>"

\* Python truthiness of a str-or-None credential value: `not x`
Falsy(x) == x \in {Missing, ""}

\* the letter texts the backend and the editor can produce
Texts == {"Dear A", "Dear B"}
NoText == ""

RECURSIVE SeqsUpTo(_, _)
SeqsUpTo(S, n) ==
    IF n = 0 THEN {<<>>}
    ELSE LET shorter == SeqsUpTo(S, n - 1)
         IN  shorter \cup {Append(s, x) : s \in shorter, x \in S}

----------------------------------------------------------------------------
(* validate_linkedin_url: re.match of a pattern against the url *)

Digits == {"1", "7"}
WordTokens == Digits \cup {"a", "johndoe", "-"}

Lit(t)  == [k |-> "lit",  t |-> t,  g |-> <<>>, c |-> {}]
Opt(g)  == [k |-> "opt",  t |-> "", g |-> g,    c |-> {}]
Plus(c) == [k |-> "plus", t |-> "", g |-> <<>>, c |-> c]
\* (?=c|$): the end of the string, or one of c, comes next
Ahead(c) == [k |-> "ahead", t |-> "", g |-> <<>>, c |-> c]

\* r'https?://(www\.)?linkedin\.com/jobs/view/\d+'
JobPattern ==
    << Lit("http"), Opt(<<"s">>), Lit("://"), Opt(<<"www", ".">>),
       Lit("linkedin"), Lit("."), Lit("com"),
       Lit("/"), Lit("jobs"), Lit("/"), Lit("view"), Lit("/"), Plus(Digits) >>

\* r'https?://(www\.)?linkedin\.com/in/[\w\-]+'
ProfilePattern ==
    << Lit("http"), Opt(<<"s">>), Lit("://"), Opt(<<"www", ".">>),
       Lit("linkedin"), Lit("."), Lit("com"),
       Lit("/"), Lit("in"), Lit("/"), Plus(WordTokens) >>

HasAt(g, s, j) ==
    /\ j + Len(g) - 1 <= Len(s)
    /\ \A m \in 1 .. Len(g) : s[j + m - 1] = g[m]

\* pat[i..] matches some prefix of s[j..]
RECURSIVE MatchAt(_, _, _, _)
MatchAt(pat, i, s, j) ==
    IF i > Len(pat) THEN TRUE
    ELSE LET p == pat[i] IN
         CASE p.k = "lit" ->
                /\ j <= Len(s)
                /\ s[j] = p.t
                /\ MatchAt(pat, i + 1, s, j + 1)
           [] p.k = "opt" ->
                \/ HasAt(p.g, s, j) /\ MatchAt(pat, i + 1, s, j + Len(p.g))
                \/ MatchAt(pat, i + 1, s, j)
           [] p.k = "plus" ->
                \E n \in 1 .. (Len(s) - j + 1) :
                    /\ \A m \in j .. (j + n - 1) : s[m] \in p.c
                    /\ MatchAt(pat, i + 1, s, j + n)
           [] p.k = "ahead" ->
                /\ j > Len(s) \/ s[j] \in p.c
                /\ MatchAt(pat, i + 1, s, j)

re_match(pat, s) == MatchAt(pat, 1, s, 1)

validate_linkedin_url(url, type) ==
    IF url = <<>> THEN FALSE
    ELSE IF type = "job" THEN re_match(JobPattern, url)
    ELSE re_match(ProfilePattern, url)

----------------------------------------------------------------------------
(* scrape_profile *)

Cred(email, pwd) == [LINKEDIN_EMAIL |-> email, LINKEDIN_PASSWORD |-> pwd]

\* lines 68-77: st.secrets[...] raises when a key is absent, and only then
\* are the environment variables read and checked
ResolveCredentials(sec, en) ==
    IF sec.LINKEDIN_EMAIL # Missing /\ sec.LINKEDIN_PASSWORD # Missing
    THEN [email |-> sec.LINKEDIN_EMAIL, pwd |-> sec.LINKEDIN_PASSWORD,
          raised |-> FALSE]
    ELSE [email |-> en.LINKEDIN_EMAIL, pwd |-> en.LINKEDIN_PASSWORD,
          raised |-> Falsy(en.LINKEDIN_EMAIL) \/ Falsy(en.LINKEDIN_PASSWORD)]

UserPersona(name, education, experience, skills, certifications) ==
    [name |-> name, education |-> education, experience |-> experience,
     skills |-> skills, certifications |-> certifications]

NoPersona == UserPersona(<<>>, <<>>, <<>>, <<>>, <<>>)

\* f"{exp['title']} at {exp['companyName']} - {exp.get('description', ...)}"
FormatExperience(exp) ==
    << exp.title, " at ", exp.companyName, " - ",
       IF exp.description = Missing THEN "No description available"
       ELSE exp.description >>

\* the experience entries the profile-fetch capability returns
RawExperience(n) ==
    [i \in 1 .. n |->
        [title |-> "Engineer", companyName |-> "Acme",
         description |-> IF i % 2 = 1 THEN "built X" ELSE Missing]]

NameParts == {<<>>, <<"Jane">>}

\* what Linkedin(email, pwd) / get_profile / get_profile_skills can do:
\* raise, return a dict without the name keys, or return a profile
ProfileOutcomes ==
    {[status |-> st, firstName |-> <<>>, lastName |-> <<>>, experience |-> <<>>] :
        st \in {"raise", "empty"}}
    \cup
    {[status |-> "profile", firstName |-> f, lastName |-> f,
      experience |-> RawExperience(n)] : f \in NameParts, n \in 0 .. MaxExperience}

\* lines 82-97
PersonaFromProfile(profile) ==
    UserPersona(profile.firstName \o <<" ">> \o profile.lastName,
                <<>>,
                [i \in 1 .. Len(profile.experience) |->
                    FormatExperience(profile.experience[i])],
                <<>>,
                <<>>)

\* lines 66-99; fetched is what the profile-fetch capability does when called
scrape_profile(profile_id, sec, en, fetched) ==
    LET cred == ResolveCredentials(sec, en)
        base == [error |-> "none", built |-> FALSE, persona |-> NoPersona,
                 loginCalls |-> 0, email |-> cred.email, pwd |-> cred.pwd]
    IN  IF cred.raised
        THEN [base EXCEPT !.error = "credentials not found"]
        ELSE IF fetched.status # "profile"
        THEN [base EXCEPT !.error = "Failed to scrape LinkedIn profile",
                          !.loginCalls = 1]
        ELSE [base EXCEPT !.built = TRUE,
                          !.persona = PersonaFromProfile(fetched),
                          !.loginCalls = 1]

\* profile_url.rstrip('/')
RECURSIVE rstrip(_)
rstrip(s) ==
    IF s # <<>> /\ s[Len(s)] = "/" THEN rstrip(SubSeq(s, 1, Len(s) - 1)) ELSE s

\* s.split('/')[-1]: what follows the last separator
RECURSIVE last_segment(_)
last_segment(s) ==
    IF s = <<>> \/ s[Len(s)] \in {"/", "://"} THEN <<>>
    ELSE Append(last_segment(SubSeq(s, 1, Len(s) - 1)), s[Len(s)])

profile_id_of(profile_url) == last_segment(rstrip(profile_url))

----------------------------------------------------------------------------
(* The Generate handler, lines 289-340 *)

\* as if line 303 read `not name and not experience`
ManualFieldsMissing_Both(name, experience) == name = <<>> /\ experience = <<>>

\* line 303: the required manual fields
ManualFieldsMissing(name, experience) == name = <<>> \/ experience = <<>>

\* what query(user, job_posting, template) can do when called: raise, time
\* out (an exception like any other) or return {'text': ...}
BackendOutcomes == {"raise", "timeout"} \cup Texts

\* what scrape_job_posting(job_url) and then query(...) do when called
Scenarios ==
    {[posting |-> "raise", backend |-> "raise"]}
    \cup {[posting |-> "posting", backend |-> b] : b \in BackendOutcomes}

NoCall ==
    [error |-> "none", path |-> "none", built |-> FALSE, persona |-> NoPersona,
     scraped |-> FALSE, loginCalls |-> 0, email |-> Missing, pwd |-> Missing,
     fetchCalls |-> 0, queryCalls |-> 0, response |-> NoText]

\* as if line 310 were tried a second time when the fetch raises
Pipeline_Retries(r, g) ==
    LET fetched == [r EXCEPT !.fetchCalls = 1]
        queried == [fetched EXCEPT !.queryCalls = 1]
    IN  IF g.posting = "raise"
        THEN [fetched EXCEPT !.fetchCalls = 2, !.error = "posting unavailable"]
        ELSE IF g.backend = "raise"
        THEN [queried EXCEPT !.error = "generation failed"]
        ELSE IF g.backend = "timeout"
        THEN [queried EXCEPT !.error = "timeout"]
        ELSE [queried EXCEPT !.error = "ok", !.response = g.backend]

\* lines 309-311, reached with a persona: the posting is fetched, then the
\* backend is queried; either call may raise into the handler of line 337
Pipeline(r, g) ==
    LET fetched == [r EXCEPT !.fetchCalls = 1]
        queried == [fetched EXCEPT !.queryCalls = 1]
    IN  IF g.posting = "raise"
        THEN [fetched EXCEPT !.error = "posting unavailable"]
        ELSE IF g.backend = "raise"
        THEN [queried EXCEPT !.error = "generation failed"]
        ELSE IF g.backend = "timeout"
        THEN [queried EXCEPT !.error = "timeout"]
        ELSE [queried EXCEPT !.error = "ok", !.response = g.backend]

\* lines 291-311 and 337-340; g holds the widget values and what the
\* external capabilities do when called
GenerateStages(g, sec, en) ==
    IF g.tab1_active
    THEN LET r == [NoCall EXCEPT !.path = "linkedin"] IN
         IF g.job_url = <<>>
         THEN [r EXCEPT !.error = "Please enter a job posting URL"]
         ELSE IF g.profile_url = <<>>
         THEN [r EXCEPT !.error = "Please enter your LinkedIn profile URL"]
         ELSE LET sp == scrape_profile(profile_id_of(g.profile_url), sec, en,
                                       g.profile)
                  s  == [r EXCEPT !.scraped = TRUE, !.built = sp.built,
                                  !.persona = sp.persona,
                                  !.loginCalls = sp.loginCalls,
                                  !.email = sp.email, !.pwd = sp.pwd]
              IN  IF sp.error # "none"
                  THEN [s EXCEPT !.error = sp.error]
                  ELSE Pipeline(s, g)
    ELSE LET r == [NoCall EXCEPT !.path = "manual"] IN
         IF ManualFieldsMissing(g.name, g.experience)
         THEN [r EXCEPT !.error = "Please fill in all required fields"]
         ELSE Pipeline([r EXCEPT !.built = TRUE,
                                 !.persona = UserPersona(
                                     g.name,
                                     <<g.education_level, " in ", g.education_field>>,
                                     g.experience, <<>>, <<>>)],
                       g)

----------------------------------------------------------------------------
(* The session state *)

Absent  == [kind |-> "absent", text |-> NoText]   \* key not in st.session_state
None    == [kind |-> "None", text |-> NoText]
Dict(t) == [kind |-> "dict", text |-> t]          \* the response of query

\* RevisionSession.start: history = [initial_text]
HistoryOnStart(text) == <<text>>

\* RevisionSession.apply_edit: the prior value is appended only if it differs
HistoryAfterEdit(hist, prior, new) ==
    IF new # prior THEN Append(hist, prior) ELSE hist

\* the editor of a run that no user input started shows the text it was given
EditorOnRerun(s) == s.cover_letter.text

\* lines 153-156
InitSessionState(s) ==
    [s EXCEPT !.cover_letter = IF @.kind = "absent" THEN None ELSE @,
              !.editor_active = IF @ = "absent" THEN "False" ELSE @]

\* as if line 268 were missing
TextAfterEdit_Dropped(prior, edited_text) == prior

\* lines 267-268: the text after the editor returned edited_text
TextAfterEdit(prior, edited_text) ==
    IF edited_text # prior THEN edited_text ELSE prior

\* as if lines 314-315 ran before the backend had answered
SessionAfterGenerate_Early(s, error, response) ==
    IF error \in {"ok", "generation failed", "timeout"}
    THEN [s EXCEPT !.cover_letter = Dict(response),
                   !.editor_active = "True",
                   !.history = <<response>>,
                   !.stored = TRUE]
    ELSE s

\* as if a letter, once generated, were kept and never replaced
SessionAfterGenerate_KeepsFirst(s, error, response) ==
    IF error = "ok" /\ s.cover_letter.kind # "dict"
    THEN [s EXCEPT !.cover_letter = Dict(response),
                   !.editor_active = "True",
                   !.history = <<response>>,
                   !.stored = TRUE]
    ELSE s

\* as if the handler of line 337 cleared the stored letter
SessionAfterGenerate_ClearsOnError(s, error, response) ==
    IF error = "ok"
    THEN [s EXCEPT !.cover_letter = Dict(response),
                   !.editor_active = "True",
                   !.history = <<response>>,
                   !.stored = TRUE]
    ELSE IF error = "none" THEN s
    ELSE [s EXCEPT !.cover_letter = None]

\* lines 313-315 run only when no stage raised
SessionAfterGenerate(s, error, response) ==
    IF error = "ok"
    THEN [s EXCEPT !.cover_letter = Dict(response),
                   !.editor_active = "True",
                   !.history = HistoryOnStart(response),
                   !.stored = TRUE]
    ELSE s

\* line 289: what st.button returns in the run that st.rerun() starts; the
\* click that started the action is consumed by the first run
ButtonOnRerun(button) == "none"

----------------------------------------------------------------------------
(* One run of the script, lines 101-340 *)

\* lines 249-258: toml.dump of the two text inputs; w.save_ok is whether
\* writing the file succeeds
SaveSettings(s, w) ==
    IF w.save_ok
    THEN [s EXCEPT !.secrets = Cred(w.linkedin_email, w.linkedin_password)]
    ELSE s

NoEdit ==
    [called |-> FALSE, prior |-> NoText, new |-> NoText, hist_before |-> <<>>,
     text_after |-> NoText, hist_after |-> <<>>]

\* lines 261-268: the editor tab, present when line 146 found a letter
EditorTab(s, has_editor_tab, edited_text) ==
    IF has_editor_tab /\ s.cover_letter.kind = "dict"
    THEN LET prior == s.cover_letter.text
             text  == TextAfterEdit(prior, edited_text)
             hist  == HistoryAfterEdit(s.history, prior, edited_text)
         IN  [state |-> [s EXCEPT !.cover_letter.text = text, !.history = hist],
              edit |-> [called |-> TRUE, prior |-> prior, new |-> edited_text,
                        hist_before |-> s.history, text_after |-> text,
                        hist_after |-> hist]]
    ELSE [state |-> s, edit |-> NoEdit]

\* lines 289-340, gen being what the stages of lines 291-311 did
GenerateButton(s, gen, edit, url_error) ==
    [state |-> SessionAfterGenerate(s, gen.error, gen.response),
     before |-> s, edit |-> edit, gen |-> gen,
     \* line 336
     rerun |-> gen.error = "ok",
     url_error |-> url_error]

\* the rest of the script once the editor tab is done
AfterEditor(ed, en, w, button) ==
    GenerateButton(ed.state,
                   IF button = "generate"
                   THEN GenerateStages(w.g, ed.state.secrets, en)
                   ELSE NoCall,
                   ed.edit,
                   \* lines 163-164
                   w.g.job_url # <<>> /\ ~validate_linkedin_url(w.g.job_url, "job"))

\* s is the session before the run, w the widget values and the behaviour of
\* the external capabilities, button the button that returns True
ScriptRun(s, en, w, button) ==
    AfterEditor(
        EditorTab(IF button = "save"
                  THEN SaveSettings(InitSessionState([s EXCEPT !.stored = FALSE]), w)
                  ELSE InitSessionState([s EXCEPT !.stored = FALSE]),
                  \* line 146, evaluated before the session state is initialised
                  s.cover_letter.kind = "dict",
                  w.edited_text),
        en, w, button)

Session ==
    [secrets |-> secrets, cover_letter |-> cover_letter,
     editor_active |-> editor_active, history |-> history, stored |-> FALSE]

\* what the editor widget can return for the session s
EditChoices(s) ==
    IF s.cover_letter.kind # "dict" THEN {NoText}
    ELSE IF Len(s.history) < MaxHistory THEN Texts
    ELSE {s.cover_letter.text}

Idle ==
    [button |-> "none", job_url |-> <<>>, name |-> <<>>, experience |-> <<>>,
     url_error |-> FALSE, before_cover_letter |-> Absent,
     before_editor_active |-> "absent", stored |-> FALSE, reruns |-> 0,
     gen |-> NoCall, fetchCalls |-> 0, queryCalls |-> 0]

\* the observation of a user action whose first run is r1 and whose run
\* after st.rerun(), if any, is r2
Observed(button, w, r1, r2) ==
    [button |-> button, job_url |-> w.g.job_url,
     name |-> w.g.name, experience |-> w.g.experience,
     url_error |-> r1.url_error,
     before_cover_letter |-> r1.before.cover_letter,
     before_editor_active |-> r1.before.editor_active,
     stored |-> r1.state.stored,
     reruns |-> IF r1.rerun THEN 1 ELSE 0,
     gen |-> r1.gen,
     fetchCalls |-> r1.gen.fetchCalls + (IF r1.rerun THEN r2.gen.fetchCalls ELSE 0),
     queryCalls |-> r1.gen.queryCalls + (IF r1.rerun THEN r2.gen.queryCalls ELSE 0)]

\* the run after st.rerun() (line 336), if the first run r1 asked for one
RunAfter(r1, en, w, button) ==
    IF r1.rerun
    THEN ScriptRun(r1.state, en,
                   [w EXCEPT !.edited_text = EditorOnRerun(r1.state)],
                   ButtonOnRerun(button))
    ELSE r1

\* the session after a user action and what was observed of the action
Outcome(button, w, r1, r2) ==
    [secrets |-> r2.state.secrets, cover_letter |-> r2.state.cover_letter,
     editor_active |-> r2.state.editor_active, history |-> r2.state.history,
     lastEdit |-> r1.edit, lastRun |-> Observed(button, w, r1, r2)]

\* a user action: the run it triggers and, after st.rerun(), the run that
\* follows; e1 is what the editor widget returns in the first run
UserAction(button, w, e1) ==
    LET Then(r1) == Outcome(button, w, r1, RunAfter(r1, env, w, button))
    IN  Then(ScriptRun(Session, env, [w EXCEPT !.edited_text = e1], button))

----------------------------------------------------------------------------
(* The widget values *)

LinkedinHost == <<"http", "s", "://", "www", ".", "linkedin", ".", "com">>

ValidJobUrl == LinkedinHost \o <<"/", "jobs", "/", "view", "/", "7", "/">>

JobUrls ==
    { <<>>,
      ValidJobUrl,
      <<"http", "s", "://", "example", ".", "com", "/", "jobs", "/", "1">> }

ProfileUrls == { <<>>, LinkedinHost \o <<"/", "in", "/", "johndoe", "/">> }

Names == {<<>>, <<"Jane Doe">>}
Experiences == {<<>>, <<"Engineer at Acme">>}

NoProfile == CHOOSE p \in ProfileOutcomes : p.status = "raise"

Widgets(tab1_active, job_url, profile_url, name, experience, profile, sc) ==
    [edited_text |-> NoText, linkedin_email |-> "", linkedin_password |-> "",
     save_ok |-> FALSE,
     g |-> [tab1_active |-> tab1_active, job_url |-> job_url,
            profile_url |-> profile_url, name |-> name,
            experience |-> experience, education_level |-> "PhD",
            education_field |-> "Other", profile |-> profile,
            posting |-> sc.posting, backend |-> sc.backend]]

NoScenario == [posting |-> "raise", backend |-> "raise"]

----------------------------------------------------------------------------
(* The user actions *)

\* Generate clicked with the LinkedIn tab taken as active (line 293)
ClickGenerateLinkedIn ==
    \E job_url \in JobUrls, profile_url \in ProfileUrls,
       e1 \in EditChoices(Session) :
    \* with an empty URL the handler returns at line 296 or 299, before any
    \* capability is called
    \E profile \in (IF job_url = <<>> \/ profile_url = <<>>
                    THEN {NoProfile} ELSE ProfileOutcomes),
       sc \in (IF job_url = <<>> \/ profile_url = <<>>
               THEN {NoScenario} ELSE Scenarios) :
    \E o \in {UserAction("generate",
                         Widgets(TRUE, job_url, profile_url, <<>>, <<>>,
                                 profile, sc),
                         e1)} :
        /\ secrets' = o.secrets
        /\ cover_letter' = o.cover_letter
        /\ editor_active' = o.editor_active
        /\ history' = o.history
        /\ lastEdit' = o.lastEdit
        /\ lastRun' = o.lastRun
        /\ UNCHANGED <<env, url_in, url_type, url_result>>

\* Generate clicked with the manual tab taken as active (line 302)
ClickGenerateManual ==
    \E job_url \in JobUrls, name \in Names, experience \in Experiences,
       sc \in Scenarios, e1 \in EditChoices(Session) :
    \E o \in {UserAction("generate",
                         Widgets(FALSE, job_url, <<>>, name, experience,
                                 NoProfile, sc),
                         e1)} :
        /\ secrets' = o.secrets
        /\ cover_letter' = o.cover_letter
        /\ editor_active' = o.editor_active
        /\ history' = o.history
        /\ lastEdit' = o.lastEdit
        /\ lastRun' = o.lastRun
        /\ UNCHANGED <<env, url_in, url_type, url_result>>

\* Save Settings clicked (line 249)
ClickSaveSettings ==
    \E email \in {"", "v"}, pwd \in {"", "v"}, ok \in BOOLEAN,
       e1 \in EditChoices(Session) :
    \E o \in {UserAction("save",
                         [Widgets(TRUE, <<>>, <<>>, <<>>, <<>>, NoProfile,
                                  NoScenario)
                          EXCEPT !.linkedin_email = email,
                                 !.linkedin_password = pwd, !.save_ok = ok],
                         e1)} :
        /\ secrets' = o.secrets
        /\ cover_letter' = o.cover_letter
        /\ editor_active' = o.editor_active
        /\ history' = o.history
        /\ lastEdit' = o.lastEdit
        /\ lastRun' = o.lastRun
        /\ UNCHANGED <<env, url_in, url_type, url_result>>

\* a widget changed (the editor's text, a text input): a run with no button
ChangeWidget ==
    \E job_url \in JobUrls, e1 \in EditChoices(Session) :
    \E o \in {UserAction("none",
                         Widgets(TRUE, job_url, <<>>, <<>>, <<>>, NoProfile,
                                 NoScenario),
                         e1)} :
        /\ secrets' = o.secrets
        /\ cover_letter' = o.cover_letter
        /\ editor_active' = o.editor_active
        /\ history' = o.history
        /\ lastEdit' = o.lastEdit
        /\ lastRun' = o.lastRun
        /\ UNCHANGED <<env, url_in, url_type, url_result>>

\* the credentials a deployment starts with: none, a secrets file with one
\* key only, environment variables that are set, or set but empty
InitialSecrets == {Cred(Missing, Missing), Cred("v", Missing)}
InitialEnv == {Cred(Missing, Missing), Cred("v", "v"), Cred("v", "")}

Init ==
    /\ secrets \in InitialSecrets
    /\ env \in InitialEnv
    /\ cover_letter = Absent
    /\ editor_active = "absent"
    /\ history = <<>>
    /\ lastRun = Idle
    /\ lastEdit = NoEdit
    /\ url_in = <<>>
    /\ url_type = "job"
    /\ url_result = "not called"

Next ==
    \/ ClickGenerateLinkedIn
    \/ ClickGenerateManual
    \/ ClickSaveSettings
    \/ ChangeWidget

Spec == Init /\ [][Next]_vars

----------------------------------------------------------------------------
(* Direct calls of validate_linkedin_url *)

Schemes == {<<"http", "://">>, <<"http", "s", "://">>, <<"ftp", "://">>, <<>>}
Hosts ==
    { <<"www", ".", "linkedin", ".", "com">>, <<"linkedin", ".", "com">>,
      <<"example", ".", "com">>, <<"www", "-", "linkedin", ".", "com">> }
Paths == { <<"/", "jobs", "/", "view", "/">>, <<"/", "jobs", "/">>,
           <<"/", "in", "/">> }
Ids == SeqsUpTo({"1", "7", "a"}, MaxIdLen)
Tails == {<<>>, <<"/">>}

CandidateUrls ==
    {<<>>} \cup
    {sch \o h \o pa \o id \o t :
        sch \in Schemes, h \in Hosts, pa \in Paths, id \in Ids, t \in Tails}

InitUrl ==
    /\ url_in \in CandidateUrls
    /\ url_type \in {"job", "profile"}
    /\ url_result = "not called"
    /\ secrets = Cred(Missing, Missing)
    /\ env = Cred(Missing, Missing)
    /\ cover_letter = Absent
    /\ editor_active = "absent"
    /\ history = <<>>
    /\ lastRun = Idle
    /\ lastEdit = NoEdit

CallValidate ==
    /\ url_result = "not called"
    /\ url_result' = IF validate_linkedin_url(url_in, url_type) THEN "True"
                     ELSE "False"
    /\ UNCHANGED <<secrets, env, cover_letter, editor_active, history, lastRun,
                   lastEdit, url_in, url_type>>

NextUrl == CallValidate

SpecUrl == InitUrl /\ [][NextUrl]_vars

----------------------------------------------------------------------------
(* Properties *)

Generating == lastRun.button = "generate"

\* the errors of the Generate handler that reject the job posting URL
UrlValidationErrors ==
    {"Please enter a job posting URL",
     "Please enter a valid LinkedIn job posting URL"}

\* C1: a Generate action whose job posting URL is empty or does not have the
\* posting-URL shape fails with a URL validation error, and neither
\* scrape_job_posting nor query is invoked.
C1_BadUrlNeverFetched ==
    (Generating /\ ~validate_linkedin_url(lastRun.job_url, "job"))
        => /\ lastRun.gen.error \in UrlValidationErrors
           /\ lastRun.fetchCalls = 0
           /\ lastRun.queryCalls = 0

\* C2: when a stage of a Generate action fails (persona building, posting
\* fetch, generation call, timeout included), nothing is stored: cover_letter
\* and editor_active are what they were when the handler started, so a
\* session without a letter still has none.
C2_FailedGenerateStoresNothing ==
    (Generating /\ lastRun.gen.error # "ok")
        => /\ cover_letter = lastRun.before_cover_letter
           /\ editor_active = lastRun.before_editor_active
           /\ ~lastRun.stored
           /\ lastRun.before_cover_letter.kind # "dict"
                => cover_letter.kind # "dict"

\* a backend timeout in a session that has no letter yet
C2_Witness ==
    /\ Generating
    /\ lastRun.gen.error = "timeout"
    /\ lastRun.gen.queryCalls = 1
    /\ cover_letter = None

\* C3: query is only ever invoked with a persona whose name and experience
\* are both non-empty, on the scraped path as on the manual one.
C3_QueriedPersonaComplete ==
    lastRun.gen.queryCalls > 0
        => /\ Len(lastRun.gen.persona.name) > 0
           /\ Len(lastRun.gen.persona.experience) > 0

\* C4: manual input with an empty name or an empty experience is rejected
\* with the input validation error; no UserPersona is constructed and
\* neither the posting fetch nor the backend is invoked.
C4_ManualMissingFieldsRejected ==
    (Generating /\ lastRun.gen.path = "manual"
                /\ (lastRun.name = <<>> \/ lastRun.experience = <<>>))
        => /\ lastRun.gen.error = "Please fill in all required fields"
           /\ ~lastRun.gen.built
           /\ lastRun.fetchCalls = 0
           /\ lastRun.queryCalls = 0

\* a name with no experience on the manual path
C4_Witness ==
    /\ Generating
    /\ lastRun.gen.path = "manual"
    /\ lastRun.name # <<>>
    /\ lastRun.experience = <<>>

\* C5: when the credential sources (secrets first, environment second) do
\* not supply a non-empty email and password, scrape_profile fails with the
\* credentials-missing error and Linkedin(email, pwd) is not invoked.
C5_NoLoginWithoutCredentials ==
    (lastRun.gen.scraped /\ (Falsy(lastRun.gen.email) \/ Falsy(lastRun.gen.pwd)))
        => /\ lastRun.gen.error = "credentials not found"
           /\ lastRun.gen.loginCalls = 0

\* C6, as stated: once a letter is stored, no later Generate action of the
\* session stores another GenerationResult over it.
C6_StartAtMostOnce ==
    [][(cover_letter.kind = "dict" /\ lastRun'.button = "generate")
          => ~lastRun'.stored]_vars

\* C6, amended: a start happens exactly once per fully successful Generate
\* action and never otherwise; such an action, also in a session that already
\* holds a letter, stores its GenerationResult as the session's letter.
C6_StartOncePerSuccessfulGenerate ==
    /\ lastRun.stored <=> (Generating /\ lastRun.gen.error = "ok")
    /\ lastRun.stored
         => /\ cover_letter = Dict(lastRun.gen.response)
            /\ editor_active = "True"
            /\ lastRun.reruns = 1

\* a successful Generate over a letter with another text
C6_Witness ==
    /\ lastRun.stored
    /\ lastRun.before_cover_letter.kind = "dict"
    /\ lastRun.before_cover_letter.text # cover_letter.text

\* C7: once cover_letter holds a letter it never is None (or absent) again,
\* whatever Generate actions, edits and re-renders follow.
C7_NeverBackToUninitialized ==
    [][cover_letter.kind = "dict" => cover_letter'.kind = "dict"]_vars

\* a failed Generate in a session that holds a letter
C7_Witness ==
    /\ Generating
    /\ lastRun.gen.error \notin {"ok", "none"}
    /\ lastRun.before_cover_letter.kind = "dict"
    /\ cover_letter.kind = "dict"

C9_AtMostOncePerAction ==
    /\ lastRun.fetchCalls <= 1
    /\ lastRun.queryCalls <= 1

\* a failed posting fetch
C9_Witness ==
    /\ Generating
    /\ lastRun.gen.error = "posting unavailable"
    /\ lastRun.fetchCalls = 1

\* the posting-URL shape: http or https, the linkedin.com host, /jobs/view/
\* and a path segment that is a number
PostingShape == JobPattern \o <<Ahead({"/"})>>

\* C10: the validator accepts a job posting URL exactly when it has the
\* posting-URL shape; it rejects the empty URL and every URL whose
\* posting-identifier segment is not wholly numeric.
C10_AcceptsExactlyPostingShape ==
    (url_type = "job" /\ url_result # "not called")
        => (url_result = "True"
              <=> (url_in # <<>> /\ re_match(PostingShape, url_in)))

====
